---- MODULE Spec2Model ----
(***************************************************************************)
(* Model of globe_15_quakes.py: fetch the earthquake feed, redraw a        *)
(* rotating globe for every frame, encode the frames to MP4.               *)
(*                                                                         *)
(* Number representation (the script computes with floats; every value    *)
(* the model needs is an exact multiple of the unit chosen):               *)
(*   magnitudes        tenths           (5.0 is 50, 6.1 is 61)              *)
(*   latitude/longitude of records      whole degrees                      *)
(*   rotation angles   half degrees     (360 degrees is 720, 140 is 280)    *)
(*   marker sizes      1/300 of a point (0.5 is 150)                        *)
(***************************************************************************)
EXTENDS Integers, Sequences, FiniteSets, TLC

VARIABLES
    pc,           \* position in the script
    response,     \* the feed's answer to the one HTTP GET (local to the fetcher)
    ffmpeg,       \* whether the external encoder backend is available
    feature_list, \* which Axes list the installed cartopy keeps features in
    earthquakes,  \* module-level list of records
    stdout,       \* lines printed so far
    ax,           \* the one drawing surface, reused by every frame
    next_frame,   \* position of the encoder's iterator over range(frames)
    frame,        \* argument of the latest animate call (-1: not called yet)
    drawn,        \* draw calls issued by the latest animate call, in call order
    ncalls        \* number of animate calls so far

vars == <<pc, response, ffmpeg, feature_list, earthquakes, stdout, ax,
          next_frame, frame, drawn, ncalls>>

---------------------------------------------------------------------------
(* Bounds of the model *)

MaxFeatures == 2
MaxQuakes == 2
MaxCalls == 3

SeqsUpTo(S, n) == UNION { [1..k -> S] : k \in 0..n }

Max(a, b) == IF a >= b THEN a ELSE b

---------------------------------------------------------------------------
(* 1. Fetch earthquake data *)

Feature(mag, place, coords) ==
    [properties |-> [mag |-> mag, place |-> place],
     geometry   |-> [type |-> "Point", coordinates |-> coords]]

GoodFeatures ==
    { Feature(47, "Fiji", <<-120, 35>>),
      Feature(63, "Tonga", <<160, -10, 33>>) }

BadFeatures ==
    { [geometry   |-> [type |-> "Point", coordinates |-> <<160, -10>>]],
      [properties |-> [place |-> "Fiji"],
       geometry   |-> [type |-> "Point", coordinates |-> <<160, -10>>]],
      [properties |-> [mag |-> 47],
       geometry   |-> [type |-> "Point", coordinates |-> <<160, -10>>]],
      [properties |-> [mag |-> 47, place |-> "Fiji"]],
      [properties |-> [mag |-> 47, place |-> "Fiji"],
       geometry   |-> [type |-> "Point"]],
      [properties |-> [mag |-> 47, place |-> "Fiji"],
       geometry   |-> [type |-> "Point", coordinates |-> <<160>>]],
      [properties |-> [mag |-> 47, place |-> "Fiji"],
       geometry   |-> [type |-> "Point", coordinates |-> <<>>]] }

Features == GoodFeatures \cup BadFeatures

Bodies ==
    { [json |-> FALSE] }
    \cup { [json |-> TRUE, value |-> [type |-> "FeatureCollection"]] }
    \cup { [json |-> TRUE,
            value |-> [type |-> "FeatureCollection", features |-> fs]] :
           fs \in SeqsUpTo(Features, MaxFeatures) }

StatusCodes == {200, 503}

Responses ==
    { [raised |-> TRUE] }
    \cup { [raised |-> FALSE, status_code |-> s, body |-> b] :
           s \in StatusCodes, b \in Bodies }

Consumed == [consumed |-> TRUE]

Notice == "Failed to fetch earthquake data. Using sample data."

SampleData ==
    << [magnitude |-> 52, latitude |-> 35,  longitude |-> -120, place |-> "Sample 1"],
       [magnitude |-> 61, latitude |-> -10, longitude |-> 160,  place |-> "Sample 2"],
       [magnitude |-> 48, latitude |-> 40,  longitude |-> 30,   place |-> "Sample 3"] >>

\* One loop body: the four subscript chains either all succeed or one raises.
ParseFeature_SwapsCoordinates(q) ==
    IF /\ "properties" \in DOMAIN q
       /\ "mag" \in DOMAIN q.properties
       /\ "geometry" \in DOMAIN q
       /\ "coordinates" \in DOMAIN q.geometry
       /\ Len(q.geometry.coordinates) >= 2
       /\ "place" \in DOMAIN q.properties
    THEN [raised |-> FALSE,
          quake  |-> [magnitude |-> q.properties.mag,
                      latitude  |-> q.geometry.coordinates[1],
                      longitude |-> q.geometry.coordinates[2],
                      place     |-> q.properties.place]]
    ELSE [raised |-> TRUE]

ParseFeature(q) ==
    IF /\ "properties" \in DOMAIN q
       /\ "mag" \in DOMAIN q.properties
       /\ "geometry" \in DOMAIN q
       /\ "coordinates" \in DOMAIN q.geometry
       /\ Len(q.geometry.coordinates) >= 2
       /\ "place" \in DOMAIN q.properties
    THEN [raised |-> FALSE,
          quake  |-> [magnitude |-> q.properties.mag,
                      latitude  |-> q.geometry.coordinates[2],
                      longitude |-> q.geometry.coordinates[1],
                      place     |-> q.properties.place]]
    ELSE [raised |-> TRUE]

\* for q in data: quakes.append(...), from feature i on
RECURSIVE ParseLoop(_, _, _)
ParseLoop(data, i, quakes) ==
    IF i > Len(data)
    THEN [raised |-> FALSE, quakes |-> quakes]
    ELSE LET r == ParseFeature(data[i])
         IN  IF r.raised
             THEN [raised |-> TRUE, quakes |-> quakes]
             ELSE ParseLoop(data, i + 1, Append(quakes, r.quake))

\* the try block: [raised, quakes]; status_code is never read
TryFetch(resp) ==
    IF resp.raised
    THEN [raised |-> TRUE, quakes |-> <<>>]
    ELSE IF ~resp.body.json
    THEN [raised |-> TRUE, quakes |-> <<>>]
    ELSE IF "features" \notin DOMAIN resp.body.value
    THEN [raised |-> TRUE, quakes |-> <<>>]
    ELSE ParseLoop(resp.body.value.features, 1, <<>>)

fetch_earthquake_data_KeepsPartial(resp) ==
    LET t == TryFetch(resp)
    IN  IF t.raised
        THEN [result |-> IF t.quakes = <<>> THEN SampleData ELSE t.quakes,
              printed |-> <<Notice>>]
        ELSE [result |-> t.quakes, printed |-> <<>>]

fetch_earthquake_data(resp) ==
    LET t == TryFetch(resp)
    IN  IF t.raised
        THEN [result |-> SampleData, printed |-> <<Notice>>]
        ELSE [result |-> t.quakes, printed |-> <<>>]

---------------------------------------------------------------------------
(* 2. Figure setup *)

NoAxes == [bound |-> FALSE]

NewAxes ==
    [artists     |-> <<>>,
     collections |-> <<>>,
     patches     |-> <<>>,
     lines       |-> <<>>,
     texts       |-> <<>>,
     legend_     |-> <<>>,
     projection  |-> [central_longitude |-> 0, central_latitude |-> 10],
     facecolor   |-> "black"]

---------------------------------------------------------------------------
(* 3. Animation: clean every frame and plot earthquakes *)

\* the five removal loops; ax.legend_ is in none of the five lists
ClearAxes_KeepsLines(a) ==
    [a EXCEPT !.artists = <<>>, !.collections = <<>>, !.patches = <<>>,
              !.texts = <<>>]

ClearAxes(a) ==
    [a EXCEPT !.artists = <<>>, !.collections = <<>>, !.patches = <<>>,
              !.lines = <<>>, !.texts = <<>>]

FullTurn == 720
BaseLongitude == 280

\* frame * -0.5, in half degrees
unreduced_FullDegreePerFrame(f) == f * (-2)

unreduced(f) == f * (-1)

\* (frame * -0.5) % 360: Python's % takes the sign of the divisor
lon0(f) == unreduced(f) % FullTurn

SetProjection(a, f) ==
    [a EXCEPT !.projection = [central_longitude |-> lon0(f) + BaseLongitude,
                              central_latitude  |-> 20],
              !.facecolor = "black"]

RingCalls_GlowFirst ==
    << [via |-> "add_patch", artist |-> "circle_glow", radius |-> 55, zorder |-> 9],
       [via |-> "add_patch", artist |-> "circle", radius |-> 50, zorder |-> 10] >>

\* radius in hundredths of the axes width
RingCalls ==
    << [via |-> "add_patch", artist |-> "circle", radius |-> 50, zorder |-> 10],
       [via |-> "add_patch", artist |-> "circle_glow", radius |-> 55, zorder |-> 9] >>

FeatureCalls ==
    << [via |-> "add_feature", artist |-> "OCEAN", zorder |-> 2],
       [via |-> "add_feature", artist |-> "LAND", zorder |-> 3],
       [via |-> "add_feature", artist |-> "COASTLINE", zorder |-> 4] >>

\* max(5, mag * 8) / 10 with mag in tenths, the result in 1/300 point
marker_size_NoFloor(mag) == 3 * (mag * 8)

marker_size(mag) == 3 * Max(50, mag * 8)

marker_color_InclusiveBounds(mag) ==
    IF mag <= 50 THEN "yellow"
    ELSE IF mag <= 60 THEN "orange"
    ELSE "red"

marker_color(mag) ==
    IF mag < 50 THEN "yellow"
    ELSE IF mag < 60 THEN "orange"
    ELSE "red"

\* the two ax.plot calls of one record
QuakeCalls(quake) ==
    LET size == marker_size(quake.magnitude)
    IN  << [via |-> "plot", artist |-> "marker", lon |-> quake.longitude,
            lat |-> quake.latitude, color |-> marker_color(quake.magnitude),
            markersize |-> size, zorder |-> 5],
           [via |-> "plot", artist |-> "marker", lon |-> quake.longitude,
            lat |-> quake.latitude, color |-> "white",
            markersize |-> size \div 3, zorder |-> 6] >>

\* for quake in earthquakes, from record i on
RECURSIVE MarkerCalls(_, _)
MarkerCalls(quakes, i) ==
    IF i > Len(quakes) THEN <<>>
    ELSE QuakeCalls(quakes[i]) \o MarkerCalls(quakes, i + 1)

TitleCall == [via |-> "text", artist |-> "title", zorder |-> 10]

\* no zorder is passed to ax.legend
LegendCall ==
    [via |-> "legend", artist |-> "legend",
     labels |-> <<"M4.5-5.0", "M5.0-6.0", "M>=6.0">>]

DrawCalls(quakes) ==
    RingCalls \o FeatureCalls \o MarkerCalls(quakes, 1) \o <<TitleCall, LegendCall>>

\* what one Axes method does to the surface; Axes.legend replaces ax.legend_
AddToAxes(a, call, flist) ==
    CASE call.via = "add_patch"   -> [a EXCEPT !.patches = Append(@, call)]
      [] call.via = "add_feature" -> [a EXCEPT ![flist] = Append(@, call)]
      [] call.via = "plot"        -> [a EXCEPT !.lines = Append(@, call)]
      [] call.via = "text"        -> [a EXCEPT !.texts = Append(@, call)]
      [] call.via = "legend"      -> [a EXCEPT !.legend_ = <<call>>]

RECURSIVE Draw(_, _, _, _)
Draw(a, calls, i, flist) ==
    IF i > Len(calls) THEN a
    ELSE Draw(AddToAxes(a, calls[i], flist), calls, i + 1, flist)

animate(f) ==
    /\ ax' = Draw(SetProjection(ClearAxes(ax), f), DrawCalls(earthquakes), 1,
                  feature_list)
    /\ drawn' = DrawCalls(earthquakes)
    /\ frame' = f
    /\ ncalls' = ncalls + 1

---------------------------------------------------------------------------
(* 4. Create animation, save as MP4 *)

FRAMES_OneTurn == 2 * 360

\* frames=1200
FRAMES == 1200

NextFrameIndex_SkipsOne(i) == i + 2

\* the encoder's iterator over range(frames)
NextFrameIndex(i) == i + 1

---------------------------------------------------------------------------
(* The script, statement by statement *)

Init ==
    /\ pc = "fetch"
    /\ response \in Responses
    /\ ffmpeg \in BOOLEAN
    /\ feature_list \in {"artists", "collections"}
    /\ earthquakes = <<>>
    /\ stdout = <<>>
    /\ ax = NoAxes
    /\ next_frame = 0
    /\ frame = -1
    /\ drawn = <<>>
    /\ ncalls = 0

\* earthquakes = fetch_earthquake_data()
Fetch ==
    /\ pc = "fetch"
    /\ LET r == fetch_earthquake_data(response)
       IN  /\ earthquakes' = r.result
           /\ stdout' = stdout \o r.printed
    /\ response' = Consumed
    /\ pc' = "setup"
    /\ UNCHANGED <<ffmpeg, feature_list, ax, next_frame, frame, drawn, ncalls>>

\* fig = plt.figure(...); ax = fig.add_axes(...); ax.set_facecolor('black')
FigureSetup ==
    /\ pc = "setup"
    /\ ax' = NewAxes
    /\ pc' = "save"
    /\ UNCHANGED <<response, ffmpeg, feature_list, earthquakes, stdout,
                   next_frame, frame, drawn, ncalls>>

\* ani = FuncAnimation(...); print; ani.save(...) up to its initial draw:
\* the writer lookup raises without the backend, else save() draws the first
\* frame of the sequence once before it iterates (no init_func is given)
SaveStart ==
    /\ pc = "save"
    /\ stdout' = Append(stdout, "Saving MP4 video... This may take a few minutes.")
    /\ IF ffmpeg
       THEN /\ animate(0)
            /\ next_frame' = 0
            /\ pc' = "encode"
       ELSE /\ pc' = "crashed"
            /\ UNCHANGED <<ax, next_frame, frame, drawn, ncalls>>
    /\ UNCHANGED <<response, ffmpeg, feature_list, earthquakes>>

\* one iteration of save(): draw the next frame and grab it
SaveFrame ==
    /\ pc = "encode"
    /\ next_frame < FRAMES
    /\ animate(next_frame)
    /\ next_frame' = NextFrameIndex(next_frame)
    /\ UNCHANGED <<pc, response, ffmpeg, feature_list, earthquakes, stdout>>

\* the iterator is exhausted: save() returns, the last print runs
SaveDone ==
    /\ pc = "encode"
    /\ next_frame >= FRAMES
    /\ stdout' = Append(stdout,
           "MP4 video saved successfully as 'rotating_earth_with_earthquakes.mp4'")
    /\ pc' = "done"
    /\ UNCHANGED <<response, ffmpeg, feature_list, earthquakes, ax, next_frame,
                   frame, drawn, ncalls>>

Next == Fetch \/ FigureSetup \/ SaveStart \/ SaveFrame \/ SaveDone

Spec == Init /\ [][Next]_vars

\* the script is one sequential process: a statement that can run does run
FairSpec == Spec /\ WF_vars(Next)

---------------------------------------------------------------------------
(* The renderer on its own: any sequence of calls, any frame indexes *)

MagValues == {-5, 6, 7, 49, 50, 59, 60, 75}

Positions == { <<35, -120>>, <<-10, 160>> }

QuakeRecords ==
    { [magnitude |-> m, latitude |-> p[1], longitude |-> p[2], place |-> "Fiji"] :
      m \in MagValues, p \in Positions }

AnimateFrames == {0, 1, 719, 720, 721, FRAMES - 1}

InitAnimate ==
    /\ pc = "animate"
    /\ response = Consumed
    /\ ffmpeg = TRUE
    /\ feature_list \in {"artists", "collections"}
    /\ earthquakes \in SeqsUpTo(QuakeRecords, MaxQuakes) \cup {SampleData}
    /\ stdout = <<>>
    /\ ax = NewAxes
    /\ next_frame = 0
    /\ frame = -1
    /\ drawn = <<>>
    /\ ncalls = 0

AnimateAny ==
    /\ pc = "animate"
    /\ ncalls < MaxCalls
    /\ \E f \in AnimateFrames : animate(f)
    /\ UNCHANGED <<pc, response, ffmpeg, feature_list, earthquakes, stdout,
                   next_frame>>

NextAnimate == AnimateAny

SpecAnimate == InitAnimate /\ [][NextAnimate]_vars

---------------------------------------------------------------------------
(* Properties of the fetcher *)

HasAllFields(q) ==
    /\ "properties" \in DOMAIN q
    /\ "mag" \in DOMAIN q.properties
    /\ "place" \in DOMAIN q.properties
    /\ "geometry" \in DOMAIN q
    /\ "coordinates" \in DOMAIN q.geometry
    /\ Len(q.geometry.coordinates) >= 2

HasFeatures(resp) ==
    /\ ~resp.raised
    /\ resp.body.json
    /\ "features" \in DOMAIN resp.body.value

WellFormedResponse(resp) ==
    /\ HasFeatures(resp)
    /\ \A i \in 1..Len(resp.body.value.features) :
          HasAllFields(resp.body.value.features[i])

MalformedResponse(resp) ==
    \/ ~HasFeatures(resp)
    \/ \E i \in 1..Len(resp.body.value.features) :
          ~HasAllFields(resp.body.value.features[i])

\* C1: a fetch of a response whose features are all well formed returns one
\* record per feature, in the features' order, record i carrying feature i's
\* mag, coordinates[0] as longitude, coordinates[1] as latitude and place,
\* unchanged.
FetchPreservesFeatures ==
    [][ (pc = "fetch" /\ WellFormedResponse(response)) =>
        LET fs == response.body.value.features
        IN  /\ pc' = "setup"
            /\ Len(earthquakes') = Len(fs)
            /\ \A i \in 1..Len(fs) :
                  /\ earthquakes'[i].magnitude = fs[i].properties.mag
                  /\ earthquakes'[i].longitude = fs[i].geometry.coordinates[1]
                  /\ earthquakes'[i].latitude  = fs[i].geometry.coordinates[2]
                  /\ earthquakes'[i].place     = fs[i].properties.place ]_vars

\* two different features were fetched, and came back in feed order
FetchedTwoInOrder ==
    /\ pc = "setup"
    /\ stdout = <<>>
    /\ Len(earthquakes) = 2
    /\ earthquakes[1].place = "Tonga" /\ earthquakes[1].longitude = 160
    /\ earthquakes[2].place = "Fiji"  /\ earthquakes[2].latitude = 35

\* C2: a fetch that fails (the request raises, the body is not JSON, features
\* is missing, or some feature at any position lacks a field) raises nothing
\* and returns exactly the three sample records (5.2, 35, -120), (6.1, -10,
\* 160), (4.8, 40, 30); nothing parsed before the failure is returned.
FetchFallsBackWhole ==
    [][ (pc = "fetch" /\ MalformedResponse(response)) =>
        /\ pc' = "setup"
        /\ Len(earthquakes') = 3
        /\ [i \in 1..3 |-> <<earthquakes'[i].magnitude, earthquakes'[i].latitude,
                             earthquakes'[i].longitude>>]
           = << <<52, 35, -120>>, <<61, -10, 160>>, <<48, 40, 30>> >> ]_vars

FellBackToSamples ==
    /\ pc = "setup"
    /\ stdout = <<Notice>>
    /\ Len(earthquakes) = 3
    /\ earthquakes[2].place = "Sample 2"

\* C3: every response with an HTTP error status, whatever its body, takes the
\* fallback branch: the three sample records are returned and the notice is
\* printed.
ErrorStatusFallsBack ==
    [][ (pc = "fetch" /\ ~response.raised /\ response.status_code >= 400) =>
        /\ earthquakes' = SampleData
        /\ stdout' = <<Notice>> ]_vars

---------------------------------------------------------------------------
(* Properties of the renderer *)

Longitude == ax.projection.central_longitude - 280

OuterMarker(i) == ax.lines[2 * i - 1]

InnerMarker(i) == ax.lines[2 * i]

\* C4: after every animate call the surface holds exactly what that call
\* drew: 2 markers per record, 2 ring patches, 3 map features, 1 title text
\* and 1 legend, whatever calls came before.
SurfaceHoldsOneFrame ==
    ncalls >= 1 =>
        /\ Len(ax.lines) = 2 * Len(earthquakes)
        /\ Len(ax.patches) = 2
        /\ Len(ax.artists) + Len(ax.collections) = 3
        /\ Len(ax.texts) = 1
        /\ Len(ax.legend_) = 1
        /\ Len(ax.lines) + Len(ax.patches) + Len(ax.artists)
             + Len(ax.collections) + Len(ax.texts) + Len(ax.legend_) = Len(drawn)

SamplesRedrawn ==
    /\ ncalls >= 2
    /\ earthquakes = SampleData
    /\ Len(ax.lines) = 6
    /\ Len(ax.patches) = 2

\* C5: at frame f the pre-offset rotation is (f * -0.5) mod 360, in [0, 360),
\* the central longitude is that plus 140, and the rotation has period 720:
\* a frame g shows the same rotation exactly when g - f is a multiple of 720,
\* the unreduced angles of f and f + 720 being 360 degrees apart.
RotationHasPeriod720 ==
    ncalls >= 1 =>
        /\ Longitude \in 0..719
        /\ (Longitude + frame) % 720 = 0
        /\ frame \in 0..1199
        /\ \A g \in 0..1199 : (lon0(g) = Longitude) <=> ((g - frame) % 720 = 0)
        /\ unreduced(frame) - unreduced(frame + 720) = 720

Frame720AtBase ==
    /\ pc = "encode"
    /\ frame = 720
    /\ ax.projection.central_longitude = 280

\* C6 as claimed: the run sweeps exactly 360 degrees, so no rotation
\* longitude is shown in two different frames of the run.
OneRotationPerRun ==
    /\ ncalls >= 1 => \A g \in 0..(frame - 1) : lon0(g) # Longitude
    /\ pc = "done" => unreduced(0) - unreduced(frame + 1) = 720

\* C6 as amended: the run of 1200 frames sweeps 600 degrees, one rotation and
\* two thirds, so every frame from 720 on shows again the rotation longitude
\* shown 720 frames before it.
RunSweeps600Degrees ==
    /\ (ncalls >= 1 /\ frame >= 720) => Longitude = lon0(frame - 720)
    /\ pc = "done" => /\ frame = 1199
                      /\ unreduced(0) - unreduced(frame + 1) = 1200

LastFrameRepeatsFrame479 ==
    /\ pc = "done"
    /\ frame = 1199
    /\ ax.projection.central_longitude = 521
    /\ lon0(479) = 241

\* C7: the outer marker's colour depends on the record's magnitude alone:
\* yellow below 5.0, orange from 5.0 up to but excluding 6.0, red from 6.0.
ColourByMagnitude ==
    ncalls >= 1 =>
        \A i \in 1..Len(earthquakes) :
            LET m == earthquakes[i].magnitude
                c == OuterMarker(i).color
            IN  /\ m < 50 => c = "yellow"
                /\ (50 <= m /\ m < 60) => c = "orange"
                /\ m >= 60 => c = "red"
                /\ \A j \in 1..Len(earthquakes) :
                      earthquakes[j].magnitude = m => OuterMarker(j).color = c

BoundaryMagnitudesDrawn ==
    /\ ncalls >= 1
    /\ Len(earthquakes) = 2
    /\ earthquakes[1].magnitude = 50 /\ OuterMarker(1).color = "orange"
    /\ earthquakes[2].magnitude = 60 /\ OuterMarker(2).color = "red"
    /\ earthquakes[1].latitude # earthquakes[2].latitude

\* C8: the outer marker's size is max(5, magnitude * 8) / 10, never below
\* 0.5, non-decreasing in magnitude, and the inner marker's size is one third
\* of it.
MarkerSizes ==
    ncalls >= 1 =>
        \A i \in 1..Len(earthquakes) :
            LET m == earthquakes[i].magnitude
                size == OuterMarker(i).markersize
            IN  /\ size = 3 * (IF m * 8 > 50 THEN m * 8 ELSE 50)
                /\ size >= 150
                /\ 3 * InnerMarker(i).markersize = size
                /\ \A j \in 1..Len(earthquakes) :
                      m <= earthquakes[j].magnitude
                          => size <= OuterMarker(j).markersize

FloorAndSlopeDrawn ==
    /\ ncalls >= 1
    /\ Len(earthquakes) = 2
    /\ earthquakes[1].magnitude = 6 /\ OuterMarker(1).markersize = 150
    /\ earthquakes[2].magnitude = 7 /\ OuterMarker(2).markersize = 168
    /\ InnerMarker(2).markersize = 56

HasZorder(call) == "zorder" \in DOMAIN call

\* the order of the kinds of element after the two rings
RestInOrder ==
    LET n == Len(earthquakes)
    IN  /\ Len(drawn) = 7 + 2 * n
        /\ drawn[3].artist = "OCEAN"
        /\ drawn[4].artist = "LAND"
        /\ drawn[5].artist = "COASTLINE"
        /\ \A i \in 1..n :
              /\ drawn[4 + 2 * i].artist = "marker"
              /\ drawn[4 + 2 * i].lon = earthquakes[i].longitude
              /\ drawn[4 + 2 * i].lat = earthquakes[i].latitude
              /\ drawn[4 + 2 * i].color # "white"
              /\ drawn[5 + 2 * i].artist = "marker"
              /\ drawn[5 + 2 * i].lon = earthquakes[i].longitude
              /\ drawn[5 + 2 * i].lat = earthquakes[i].latitude
              /\ drawn[5 + 2 * i].color = "white"
        /\ drawn[6 + 2 * n].artist = "title"
        /\ drawn[7 + 2 * n].artist = "legend"

\* C9 as claimed: the draw order is glow ring, boundary ring, ocean, land,
\* coastlines, each record's outer then inner marker, title, legend, and no
\* element is stacked below an element drawn before it.
DrawOrderBackToFront ==
    ncalls >= 1 =>
        /\ drawn[1].artist = "circle_glow"
        /\ drawn[2].artist = "circle"
        /\ RestInOrder
        /\ \A i, j \in 1..Len(drawn) :
              (i < j /\ HasZorder(drawn[i]) /\ HasZorder(drawn[j]))
                  => drawn[i].zorder <= drawn[j].zorder

\* C9 as amended: the draw order is boundary ring, glow ring, ocean, land,
\* coastlines, each record's outer then inner marker, title, legend; it is
\* not the stacking order, which the zorders give: ocean 2, land 3,
\* coastlines 4, outer markers 5, inner markers 6, glow ring 9, boundary ring
\* and title 10, so nothing drawn after the boundary ring is stacked above it.
DrawOrderAndStacking ==
    ncalls >= 1 =>
        /\ drawn[1].artist = "circle" /\ drawn[1].zorder = 10
        /\ drawn[2].artist = "circle_glow" /\ drawn[2].zorder = 9
        /\ RestInOrder
        /\ drawn[3].zorder = 2 /\ drawn[4].zorder = 3 /\ drawn[5].zorder = 4
        /\ \A i \in 1..Len(earthquakes) :
              drawn[4 + 2 * i].zorder = 5 /\ drawn[5 + 2 * i].zorder = 6
        /\ drawn[6 + 2 * Len(earthquakes)].zorder = 10
        /\ \A j \in 1..Len(drawn) :
              HasZorder(drawn[j]) => drawn[j].zorder <= drawn[1].zorder

RingsDrawnBeforeTwoRecords ==
    /\ ncalls >= 1
    /\ Len(earthquakes) = 2
    /\ Len(drawn) = 11
    /\ drawn[1].artist = "circle"
    /\ drawn[9].color = "white"

---------------------------------------------------------------------------
(* Properties of the run *)

\* C10: whatever the fetch returned, the run reaches the save call, and the
\* encoder backend being available it reaches its end; the frame indexes
\* handed to the renderer start at 0, never decrease, never skip, stay within
\* 0..1199 and have reached 1199 when the run ends, after which nothing more
\* is rendered.
EncoderRendersEveryFrame ==
    /\ <>(pc \in {"encode", "crashed"})
    /\ [](ffmpeg => <>(pc = "done"))
    /\ [][frame' \in {frame, frame + 1}]_vars
    /\ [](ncalls >= 1 => frame \in 0..1199)
    /\ [](pc = "done" => (frame = 1199 /\ ncalls >= 1200))
    /\ [][pc # "done"]_vars

RunEndedOnSampleData ==
    /\ pc = "done"
    /\ frame = 1199
    /\ earthquakes = SampleData
    /\ Len(stdout) = 3

====
